---- MODULE Spec2Model ----
(***************************************************************************)
(* order-manager test tooling.                                             *)
(*                                                                         *)
(*   scripts/mock_binance.py   a Flask service that impersonates the       *)
(*                             exchange API and scripts failures per       *)
(*                             endpoint from a shared attempt_registry.    *)
(*   scripts/cli_loop_test.py  a driver that runs the CLI in a loop,       *)
(*                             classifies every run and tallies them.      *)
(*                                                                         *)
(* Spec       : the service, one request handled at a time.                *)
(* SpecDriver : the driver's main(), one step per blocking call.           *)
(***************************************************************************)
EXTENDS Integers, Sequences, FiniteSets, TLC

VARIABLES
    \* ---- mock_binance.py
    attempt_registry,   \* the module-level dict: endpoint -> attempts
    calls,              \* requests served so far, per stateful endpoint
    response,           \* the response of the request served last
    \* ---- cli_loop_test.py, main()
    pc,                 \* where main() is: start, loop, running, summary, done
    command,            \* args.command
    cli_args,           \* cli_args after lines 107-109
    iterations,         \* args.iterations
    sleep,              \* args.sleep
    i,                  \* the loop variable of line 125
    cmd,                \* the command line of the process spawned last
    crashes,
    rate_limits,
    successes,
    retriable_seen,
    durations,
    stdout,             \* the per-iteration lines printed (130, 155-160)
    runs,               \* what each spawned process did, in spawn order
    slept,              \* time.sleep calls made (line 163)
    exit_code,          \* main()'s return value, -1 until it returns
    log_dir,            \* args.log_dir
    verbose,            \* args.verbose
    logs,               \* the files write_log wrote (line 134)
    echoed,             \* the outputs printed under --verbose (line 137)
    report,             \* the timing lines of the summary (165-183)
    \* ---- a second run of main(), compared with the first
    twin,
    \* ---- percentile and render_command called on their own
    call,               \* the function called and its arguments
    ret,                \* what it returned
    \* ---- mock_binance.py, handlers running line by line
    requests,           \* the handler invocations in flight
    log                 \* the responses sent, per endpoint, in order

service_vars == <<attempt_registry, calls, response>>

driver_vars == <<pc, command, cli_args, iterations, sleep, i, cmd, crashes,
                 rate_limits, successes, retriable_seen, durations, stdout,
                 runs, slept, exit_code, log_dir, verbose, logs, echoed,
                 report>>

pure_vars == <<call, ret>>

race_vars == <<requests, log>>

\* what a handler of the service leaves alone
not_service_vars == <<driver_vars, twin, pure_vars, race_vars>>

\* what a step of main() leaves alone (twin apart)
not_driver_vars == <<service_vars, pure_vars, race_vars>>

vars == <<attempt_registry, calls, response, pc, command, cli_args,
          iterations, sleep, i, cmd, crashes, rate_limits, successes,
          retriable_seen, durations, stdout, runs, slept, exit_code,
          log_dir, verbose, logs, echoed, report, twin, call, ret,
          requests, log>>

(***************************************************************************)
(* Bounds of the model.                                                    *)
(***************************************************************************)
\* requests served per stateful endpoint
MaxCalls == 11

\* values time.time() * 1000 takes
MaxClock == 2

\* args.iterations ranges over 0..MaxIterations
MaxIterations == 2

\* a duration sample ranges over 1..MaxDuration
MaxDuration == 2

\* requests made in all while up to two handlers run at once
MaxRaceRequests == 5

\* requests made per endpoint while the endpoints run side by side
MaxCrossCalls == 6

\* render_command is called for iterations 1..MaxRenderIterations
MaxRenderIterations == 11

\* percentile is handed lists of 0..MaxSamples samples, and three longer ones
MaxSamples == 3

None == "None"

(***************************************************************************)
(* mock_binance.py                                                         *)
(***************************************************************************)
Clock == 1..MaxClock

Symbols == {"BTCUSDT", "ETHUSDT"}

StatefulEndpoints == {"time", "ticker", "place_order"}

\* attempt_registry.get(endpoint, 0)
RegistryGet(registry, endpoint) ==
    IF endpoint \in DOMAIN registry THEN registry[endpoint] ELSE 0

\* attempt_registry[endpoint] = value
RegistrySet(registry, endpoint, value) ==
    [e \in DOMAIN registry \cup {endpoint} |->
        IF e = endpoint THEN value ELSE registry[e]]

\* get_attempt: the registry after line 9; line 10 returns its entry
get_attempt(registry, endpoint) ==
    RegistrySet(registry, endpoint, RegistryGet(registry, endpoint) + 1)

\* reset_attempt
reset_attempt_all(registry, endpoint) ==
    [e \in DOMAIN registry \cup {endpoint} |-> 0]

reset_attempt(registry, endpoint) ==
    RegistrySet(registry, endpoint, 0)

\* jsonify(...) with no status is Flask's 200
Response(endpoint, status, body) ==
    [endpoint |-> endpoint, status |-> status, body |-> body]

\* no request served yet
NoResponse == Response(None, 0, <<>>)

Served(endpoint) ==
    calls' = [calls EXCEPT ![endpoint] = @ + 1]

\* the test of line 19
TimeBusy_le(attempt) == attempt <= 4

TimeBusy(attempt) == attempt < 4

\* the test of line 51
TickerLimited(attempt) == attempt = 4

\* the test of line 73
OrderBanned_lt(attempt) == attempt < 4

OrderBanned(attempt) == attempt <= 4

mock_time ==
    /\ calls["time"] < MaxCalls
    /\ LET registry == get_attempt(attempt_registry, "time")
           attempt == registry["time"]
       IN  IF TimeBusy(attempt)
           THEN /\ attempt_registry' = registry
                /\ response' = Response("time", 503, [msg |-> "Server Busy"])
           ELSE /\ attempt_registry' = reset_attempt(registry, "time")
                /\ \E now \in Clock :
                      response' = Response("time", 200, [serverTime |-> now])
    /\ Served("time")
    /\ UNCHANGED not_service_vars

FILTERS == <<"PRICE_FILTER", "LOT_SIZE", "MIN_NOTIONAL", "PERCENT_PRICE_BY_SIDE">>

mock_exchange_info ==
    /\ \E symbol \in Symbols :
          response' = Response("exchangeInfo", 200,
                               [symbol |-> symbol, status |-> "TRADING",
                                filters |-> FILTERS])
    /\ UNCHANGED <<attempt_registry, calls>>
    /\ UNCHANGED not_service_vars

mock_ticker ==
    /\ calls["ticker"] < MaxCalls
    /\ LET registry == get_attempt(attempt_registry, "ticker")
           attempt == registry["ticker"]
       IN  IF TickerLimited(attempt)
           THEN /\ attempt_registry' = registry
                /\ response' = Response("ticker", 429,
                                        [code |-> -1003,
                                         msg |-> "Too many requests"])
           ELSE /\ attempt_registry' = reset_attempt(registry, "ticker")
                /\ response' = Response("ticker", 200,
                                        [symbol |-> "BTCUSDT",
                                         price |-> "60000.00"])
    /\ Served("ticker")
    /\ UNCHANGED not_service_vars

mock_account ==
    /\ response' = Response("account", 200,
                            [balances |-> <<"BTC", "USDT">>])
    /\ UNCHANGED <<attempt_registry, calls>>
    /\ UNCHANGED not_service_vars

mock_place_order ==
    /\ calls["place_order"] < MaxCalls
    /\ LET registry == get_attempt(attempt_registry, "place_order")
           attempt == registry["place_order"]
       IN  IF OrderBanned(attempt)
           THEN /\ attempt_registry' = registry
                /\ response' = Response("place_order", 418,
                                        [code |-> -1003, msg |-> "IP Banned"])
           ELSE /\ attempt_registry' = reset_attempt(registry, "place_order")
                /\ \E now \in Clock :
                      response' = Response("place_order", 200,
                                           [symbol |-> "BTCUSDT",
                                            orderId |-> 1234567,
                                            transactTime |-> now,
                                            status |-> "NEW"])
    /\ Served("place_order")
    /\ UNCHANGED not_service_vars

(***************************************************************************)
(* The handlers line by line, as the threaded server may interleave them.  *)
(* A request in flight is [endpoint, at, value, alone]: at is the line the *)
(* handler is about to run, value its local (the count read by line 9,     *)
(* then attempt), alone whether no other request to the same endpoint has  *)
(* been in flight with it.  log[e] lists the responses sent by e's         *)
(* handler.                                                                *)
(***************************************************************************)
\* the tests of lines 19, 51 and 73
Fails(endpoint, attempt) ==
    CASE endpoint = "time" -> TimeBusy(attempt)
      [] endpoint = "ticker" -> TickerLimited(attempt)
      [] endpoint = "place_order" -> OrderBanned(attempt)

\* the statuses of lines 21, 53 and 75
FailStatus(endpoint) ==
    CASE endpoint = "time" -> 503
      [] endpoint = "ticker" -> 429
      [] endpoint = "place_order" -> 418

\* a whole handler run with nothing in between: the registry it leaves and
\* the status it answers
Handle(registry, endpoint) ==
    LET counted == get_attempt(registry, endpoint)
    IN  IF Fails(endpoint, counted[endpoint])
        THEN [registry |-> counted, status |-> FailStatus(endpoint)]
        ELSE [registry |-> reset_attempt(counted, endpoint), status |-> 200]

InFlight(endpoint) ==
    {k \in DOMAIN requests : requests[k].endpoint = endpoint}

Remove(seq, k) == SubSeq(seq, 1, k - 1) \o SubSeq(seq, k + 1, Len(seq))

\* the route is entered
Arrive(endpoint) ==
    /\ requests' =
          Append([k \in DOMAIN requests |->
                     IF requests[k].endpoint = endpoint
                     THEN [requests[k] EXCEPT !.alone = FALSE]
                     ELSE requests[k]],
                 [endpoint |-> endpoint, at |-> "get", value |-> 0,
                  alone |-> InFlight(endpoint) = {}])
    /\ UNCHANGED <<attempt_registry, log>>

\* the handler returns
Respond(k, status) ==
    /\ log' = [log EXCEPT ![requests[k].endpoint] =
                  Append(@, [status |-> status, alone |-> requests[k].alone])]
    /\ requests' = Remove(requests, k)

\* line 9, right-hand side: attempt_registry.get(endpoint, 0)
Line9Get(k) ==
    /\ requests[k].at = "get"
    /\ requests' = [requests EXCEPT
                       ![k].value = RegistryGet(attempt_registry,
                                                requests[k].endpoint),
                       ![k].at = "store"]
    /\ UNCHANGED <<attempt_registry, log>>

\* line 9, the store
Line9Store(k) ==
    /\ requests[k].at = "store"
    /\ attempt_registry' = RegistrySet(attempt_registry, requests[k].endpoint,
                                       requests[k].value + 1)
    /\ requests' = [requests EXCEPT ![k].at = "return"]
    /\ UNCHANGED log

\* line 10
Line10(k) ==
    /\ requests[k].at = "return"
    /\ requests' = [requests EXCEPT
                       ![k].value = attempt_registry[requests[k].endpoint],
                       ![k].at = "test"]
    /\ UNCHANGED <<attempt_registry, log>>

\* lines 19-21, 51-53, 73-75
Test(k) ==
    /\ requests[k].at = "test"
    /\ IF Fails(requests[k].endpoint, requests[k].value)
       THEN Respond(k, FailStatus(requests[k].endpoint))
       ELSE /\ requests' = [requests EXCEPT ![k].at = "reset"]
            /\ UNCHANGED log
    /\ UNCHANGED attempt_registry

\* lines 24-25, 55-56, 78-88
Reset(k) ==
    /\ requests[k].at = "reset"
    /\ attempt_registry' = reset_attempt(attempt_registry,
                                         requests[k].endpoint)
    /\ Respond(k, 200)

handler_get ==
    /\ \E k \in DOMAIN requests : Line9Get(k)
    /\ UNCHANGED <<calls, response, driver_vars, twin, pure_vars>>

handler_store ==
    /\ \E k \in DOMAIN requests : Line9Store(k)
    /\ UNCHANGED <<calls, response, driver_vars, twin, pure_vars>>

handler_return ==
    /\ \E k \in DOMAIN requests : Line10(k)
    /\ UNCHANGED <<calls, response, driver_vars, twin, pure_vars>>

handler_test ==
    /\ \E k \in DOMAIN requests : Test(k)
    /\ UNCHANGED <<calls, response, driver_vars, twin, pure_vars>>

handler_reset ==
    /\ \E k \in DOMAIN requests : Reset(k)
    /\ UNCHANGED <<calls, response, driver_vars, twin, pure_vars>>

Arrivals ==
    Len(requests) + Len(log["time"]) + Len(log["ticker"])
        + Len(log["place_order"])

\* a request arrives while at most one other is being handled
race_request ==
    /\ Len(requests) < 2
    /\ Arrivals < MaxRaceRequests
    /\ \E e \in StatefulEndpoints : Arrive(e)
    /\ UNCHANGED <<calls, response, driver_vars, twin, pure_vars>>

\* a request arrives at an endpoint that is handling none
cross_request ==
    /\ \E e \in StatefulEndpoints :
          /\ InFlight(e) = {}
          /\ Len(log[e]) < MaxCrossCalls
          /\ Arrive(e)
    /\ UNCHANGED <<calls, response, driver_vars, twin, pure_vars>>

(***************************************************************************)
(* cli_loop_test.py                                                        *)
(*                                                                         *)
(* An argument token is a sequence of pieces: literal text, or one of the  *)
(* placeholders "{i}" and "{ts}".  A process's output is a sequence of     *)
(* words; a marker phrase is a contiguous run of words in it.              *)
(***************************************************************************)
Tok(text) == <<text>>

SEPARATOR == Tok("--")

DEFAULT_COMMAND == <<Tok("balances")>>

JAR == Tok("target/order-manager-1.0.0.jar")

RETRIABLE_MARKER == <<"Retriable", "error">>

RATE_LIMIT_MARKER == <<"Rate", "limit", "exceeded">>

\* args.command
Commands ==
    { <<>>,
      <<SEPARATOR>>,
      <<SEPARATOR, Tok("balances")>>,
      <<Tok("cancel"), <<"order-", "{i}">>>> }

\* args.sleep
Sleeps == {0, 1}

\* args.log_dir and args.verbose: a quiet run, and one that logs and echoes
Reporting == {<<"", FALSE>>, <<"logs", TRUE>>}

\* result.returncode
ReturnCodes == {0, 1}

\* result.stdout
Outputs ==
    { <<>>,
      <<"BTC", "1.5">>,
      <<"Retriable", "error", "timeout">>,
      <<"ERROR", "Rate", "limit", "exceeded">>,
      <<"Retriable", "error", "Rate", "limit", "exceeded">>,
      <<"Rate", "limit", "error", "exceeded">> }

\* a run of the process is fast or slow
Durations == {1, MaxDuration}

\* marker in output
Contains(output, marker) ==
    \E k \in 1..(Len(output) + 1 - Len(marker)) :
        SubSeq(output, k, k + Len(marker) - 1) = marker

\* the dict run_once returns (lines 67-75)
run_once(returncode, duration, output) ==
    [exit_code |-> returncode,
     duration  |-> duration,
     output    |-> output,
     retriable |-> Contains(output, RETRIABLE_MARKER),
     rate_limit |-> Contains(output, RATE_LIMIT_MARKER)]

\* str(n) of a natural number, one piece per digit
DigitChar(d) ==
    CASE d = 0 -> "0" [] d = 1 -> "1" [] d = 2 -> "2" [] d = 3 -> "3"
      [] d = 4 -> "4" [] d = 5 -> "5" [] d = 6 -> "6" [] d = 7 -> "7"
      [] d = 8 -> "8" [] d = 9 -> "9"

RECURSIVE str(_)
str(n) == IF n < 10 THEN <<DigitChar(n)>>
          ELSE str(n \div 10) \o <<DigitChar(n % 10)>>

\* arg.replace(old, new): every piece equal to old becomes the pieces of new
RECURSIVE replace_first(_, _, _)
replace_first(arg, old, new) ==
    IF arg = <<>> THEN <<>>
    ELSE IF Head(arg) = old THEN new \o Tail(arg)
    ELSE <<Head(arg)>> \o replace_first(Tail(arg), old, new)

RECURSIVE replace(_, _, _)
replace(arg, old, new) ==
    IF arg = <<>> THEN <<>>
    ELSE (IF Head(arg) = old THEN new ELSE <<Head(arg)>>)
         \o replace(Tail(arg), old, new)

\* render_command, with timestamp_ms the value line 96 reads
render_command(args, iteration, timestamp_ms) ==
    [k \in 1..Len(args) |->
        replace(replace(args[k], "{i}", str(iteration)),
                "{ts}", str(timestamp_ms))]

\* lines 107-109
StripSeparator_keep(cmdline) ==
    IF cmdline # <<>> THEN cmdline ELSE DEFAULT_COMMAND

StripSeparator(cmdline) ==
    LET given == IF cmdline # <<>> THEN cmdline ELSE DEFAULT_COMMAND
    IN  IF given # <<>> /\ given[1] = SEPARATOR THEN Tail(given) ELSE given

\* lines 140-141
CrashIncrement_unless_limited(result) ==
    IF result.exit_code # 0 /\ ~result.rate_limit THEN 1 ELSE 0

CrashIncrement(result) == IF result.exit_code # 0 THEN 1 ELSE 0

\* lines 143-144
RetriableIncrement(result) == IF result.retriable THEN 1 ELSE 0

\* lines 146-153: the display status
Classify_exit_first(result) ==
    IF result.exit_code # 0 THEN "FAIL"
    ELSE IF result.rate_limit THEN "RATE_LIMIT"
    ELSE "OK"

Classify(result) ==
    IF result.rate_limit THEN "RATE_LIMIT"
    ELSE IF result.exit_code = 0 THEN "OK"
    ELSE "FAIL"

\* lines 146-151: the tallies that go with the display status
RateLimitIncrement(result) == IF result.rate_limit THEN 1 ELSE 0

SuccessIncrement_unless_retriable(result) ==
    IF result.exit_code = 0 /\ ~result.rate_limit /\ ~result.retriable
    THEN 1 ELSE 0

SuccessIncrement_any_zero_exit(result) ==
    IF result.exit_code = 0 THEN 1 ELSE 0

SuccessIncrement(result) == IF Classify(result) = "OK" THEN 1 ELSE 0

\* lines 185-187
main_return_more_than_one(crashed) == IF crashed > 1 THEN 2 ELSE 0

main_return(crashed) == IF crashed > 0 THEN 2 ELSE 0

SetLast(seq, value) == [seq EXCEPT ![Len(seq)] = value]

(***************************************************************************)
(* percentile.  A proportion is given in hundredths: pct stands for the    *)
(* double nearest pct/100.  pct * len(sorted_vals) is a double product,    *)
(* and CeilOfProduct is math.ceil of it, computed from the error of the    *)
(* double against pct/100 and the rounding of the product.                 *)
(***************************************************************************)
Min(a, b) == IF a < b THEN a ELSE b

Max(a, b) == IF a > b THEN a ELSE b

RECURSIVE Pow2(_)
Pow2(e) == IF e = 0 THEN 1 ELSE 2 * Pow2(e - 1)

\* 2^e modulo 100
RECURSIVE PowMod2(_)
PowMod2(e) ==
    IF e = 0 THEN 1
    ELSE LET root == PowMod2(e \div 2)
         IN  (root * root * (IF e % 2 = 1 THEN 2 ELSE 1)) % 100

\* the least j with pct/100 >= 2^-j: the double of pct/100 is m * 2^-(52+j)
NegExp(pct) == CHOOSE j \in 0..7 : pct * Pow2(j) >= 100 /\
                   \A h \in 0..(j - 1) : pct * Pow2(h) < 100

\* (double of pct/100 - pct/100) in units of 2^-(52+j) / 100
Residue(pct) ==
    LET t == (pct * PowMod2(52 + NegExp(pct))) % 100
    IN  IF t < 50 THEN 0 - t ELSE 100 - t

RECURSIVE Log2Floor(_)
Log2Floor(k) == IF k < 2 THEN 0 ELSE 1 + Log2Floor(k \div 2)

\* line 90: int(math.ceil(pct * len(sorted_vals)))
CeilOfProduct(pct, n) ==
    IF (pct * n) % 100 # 0 THEN (pct * n + 99) \div 100
    ELSE LET K == (pct * n) \div 100
             half == 100 * Pow2(Log2Floor(K) + NegExp(pct) - 1)
         IN  IF K = 0 \/ Residue(pct) <= 0 \/ Residue(pct) * n <= half
             THEN K
             ELSE K + 1

\* sorted(values)
RECURSIVE Insert(_, _)
Insert(sorted_vals, v) ==
    IF sorted_vals = <<>> THEN <<v>>
    ELSE IF v < Head(sorted_vals) THEN <<v>> \o sorted_vals
    ELSE <<Head(sorted_vals)>> \o Insert(Tail(sorted_vals), v)

RECURSIVE sorted(_)
sorted(values) ==
    IF values = <<>> THEN <<>>
    ELSE Insert(sorted(SubSeq(values, 1, Len(values) - 1)),
                values[Len(values)])

\* lines 86-92
percentile(values, pct) ==
    IF values = <<>> THEN 0
    ELSE LET sorted_vals == sorted(values)
             idx == CeilOfProduct(pct, Len(sorted_vals)) - 1
         IN  sorted_vals[Max(0, Min(idx, Len(sorted_vals) - 1)) + 1]

RECURSIVE sum(_)
sum(values) == IF values = <<>> THEN 0 ELSE Head(values) + sum(Tail(values))

\* lines 165-169; avg is the fraction <<numerator, denominator>>
Report(samples) ==
    [avg |-> IF samples # <<>> THEN <<sum(samples), Len(samples)>>
             ELSE <<0, 1>>,
     p50 |-> percentile(samples, 50),
     p95 |-> percentile(samples, 95),
     fastest |-> IF samples # <<>> THEN sorted(samples)[1] ELSE 0,
     slowest |-> IF samples # <<>> THEN sorted(samples)[Len(samples)] ELSE 0]

\* write_log, lines 78-83
write_log(files, dir, iteration, output) ==
    IF dir = "" THEN files
    ELSE Append(files, [dir |-> dir, iteration |-> iteration,
                        output |-> output])

\* lines 106-123, with the command line drawn from the given sets
Start(commands, counts, sleeps, reporting) ==
    /\ pc = "start"
    /\ \E c \in commands, n \in counts, s \in sleeps,
          r \in reporting :
          /\ command' = c
          /\ iterations' = n
          /\ sleep' = s
          /\ log_dir' = r[1]
          /\ verbose' = r[2]
          /\ cli_args' = StripSeparator(c)
          /\ IF StripSeparator(c) = <<>>
             THEN /\ exit_code' = 2
                  /\ pc' = "done"
                  /\ i' = i
             ELSE /\ exit_code' = exit_code
                  /\ pc' = "loop"
                  /\ i' = 1
    /\ UNCHANGED <<cmd, crashes, rate_limits, successes, retriable_seen,
                   durations, stdout, runs, slept, logs, echoed, report>>
    /\ UNCHANGED not_driver_vars

main_start == Start(Commands, 0..MaxIterations, Sleeps, Reporting)

\* lines 125-126 and the subprocess.run of line 60: the process is spawned
spawn ==
    /\ pc = "loop"
    /\ i <= iterations
    /\ \E timestamp_ms \in Clock :
          cmd' = <<Tok("java"), Tok("-jar"), JAR>>
                 \o render_command(cli_args, i, timestamp_ms)
    /\ runs' = Append(runs, [i |-> i, state |-> "RUNNING"])
    /\ pc' = "running"
    /\ UNCHANGED <<command, cli_args, iterations, sleep, i, crashes,
                   rate_limits, successes, retriable_seen, durations, stdout,
                   slept, exit_code, log_dir, verbose, logs, echoed, report>>
    /\ UNCHANGED not_driver_vars

\* lines 129-132: subprocess.TimeoutExpired
timeout_uncounted ==
    /\ pc = "running"
    /\ stdout' = Append(stdout, [i |-> i, status |-> "TIMEOUT"])
    /\ runs' = SetLast(runs, [i |-> i, state |-> "TIMED_OUT"])
    /\ i' = i + 1
    /\ pc' = "loop"
    /\ UNCHANGED <<command, cli_args, iterations, sleep, cmd, crashes,
                   rate_limits, successes, retriable_seen, durations, slept,
                   exit_code, log_dir, verbose, logs, echoed, report>>
    /\ UNCHANGED not_driver_vars

timeout_sampled ==
    /\ pc = "running"
    /\ stdout' = Append(stdout, [i |-> i, status |-> "TIMEOUT"])
    /\ crashes' = crashes + 1
    /\ durations' = Append(durations, MaxDuration)
    /\ runs' = SetLast(runs, [i |-> i, state |-> "TIMED_OUT"])
    /\ i' = i + 1
    /\ pc' = "loop"
    /\ UNCHANGED <<command, cli_args, iterations, sleep, cmd, rate_limits,
                   successes, retriable_seen, slept, exit_code, log_dir,
                   verbose, logs, echoed, report>>
    /\ UNCHANGED not_driver_vars

timeout_paused ==
    /\ pc = "running"
    /\ stdout' = Append(stdout, [i |-> i, status |-> "TIMEOUT"])
    /\ crashes' = crashes + 1
    /\ slept' = IF sleep > 0 THEN slept + 1 ELSE slept
    /\ runs' = SetLast(runs, [i |-> i, state |-> "TIMED_OUT"])
    /\ i' = i + 1
    /\ pc' = "loop"
    /\ UNCHANGED <<command, cli_args, iterations, sleep, cmd, rate_limits,
                   successes, retriable_seen, durations, exit_code, log_dir,
                   verbose, logs, echoed, report>>
    /\ UNCHANGED not_driver_vars

timeout_abort ==
    /\ pc = "running"
    /\ stdout' = Append(stdout, [i |-> i, status |-> "TIMEOUT"])
    /\ crashes' = crashes + 1
    /\ runs' = SetLast(runs, [i |-> i, state |-> "TIMED_OUT"])
    /\ i' = i + 1
    /\ pc' = "done"
    /\ UNCHANGED <<command, cli_args, iterations, sleep, cmd, rate_limits,
                   successes, retriable_seen, durations, slept, exit_code,
                   log_dir, verbose, logs, echoed, report>>
    /\ UNCHANGED not_driver_vars

timeout ==
    /\ pc = "running"
    /\ stdout' = Append(stdout, [i |-> i, status |-> "TIMEOUT"])
    /\ crashes' = crashes + 1
    /\ runs' = SetLast(runs, [i |-> i, state |-> "TIMED_OUT"])
    /\ i' = i + 1
    /\ pc' = "loop"
    /\ UNCHANGED <<command, cli_args, iterations, sleep, cmd, rate_limits,
                   successes, retriable_seen, durations, slept, exit_code,
                   log_dir, verbose, logs, echoed, report>>
    /\ UNCHANGED not_driver_vars

\* lines 128 and 134-163: the process exited within the timeout, with this
\* return code and output after this long
Complete(returncode, duration, output) ==
    /\ pc = "running"
    /\    LET result == run_once(returncode, duration, output)
          IN  /\ runs' = SetLast(runs, [i |-> i, state |-> "COMPLETED",
                                        returncode |-> returncode,
                                        duration |-> duration,
                                        output |-> output])
              /\ logs' = write_log(logs, log_dir, i, result.output)
              /\ echoed' = IF verbose THEN Append(echoed, result.output)
                            ELSE echoed
              /\ durations' = Append(durations, result.duration)
              /\ crashes' = crashes + CrashIncrement(result)
              /\ retriable_seen' = retriable_seen + RetriableIncrement(result)
              /\ rate_limits' = rate_limits + RateLimitIncrement(result)
              /\ successes' = successes + SuccessIncrement(result)
              /\ stdout' = Append(stdout,
                                  [i |-> i, status |-> Classify(result),
                                   exit |-> result.exit_code,
                                   elapsed |-> result.duration,
                                   retriable |-> result.retriable])
    /\ slept' = IF sleep > 0 THEN slept + 1 ELSE slept
    /\ i' = i + 1
    /\ pc' = "loop"
    /\ UNCHANGED <<command, cli_args, iterations, sleep, cmd, exit_code,
                   log_dir, verbose, report>>
    /\ UNCHANGED not_driver_vars

complete ==
    \E returncode \in ReturnCodes, duration \in Durations,
       output \in Outputs :
        Complete(returncode, duration, output)

\* lines 165-187, after the loop
summary ==
    /\ pc = "loop"
    /\ i > iterations
    /\ report' = Report(durations)
    /\ exit_code' = main_return(crashes)
    /\ pc' = "done"
    /\ UNCHANGED <<command, cli_args, iterations, sleep, i, cmd, crashes,
                   rate_limits, successes, retriable_seen, durations, stdout,
                   runs, slept, log_dir, verbose, logs, echoed>>
    /\ UNCHANGED not_driver_vars

(***************************************************************************)
(* The loop of main() seen for its control flow: every command and         *)
(* iteration count, each process timing out, exiting 0 or exiting 1, with  *)
(* no output and no log.                                                   *)
(***************************************************************************)
sequential_start ==
    Start(Commands, 0..MaxIterations, Sleeps, {<<"", FALSE>>})
        /\ UNCHANGED twin

sequential_spawn == spawn /\ UNCHANGED twin

sequential_timeout == timeout /\ UNCHANGED twin

sequential_exit ==
    /\ \E returncode \in ReturnCodes : Complete(returncode, 1, <<>>)
    /\ UNCHANGED twin

sequential_summary == summary /\ UNCHANGED twin

(***************************************************************************)
(* The loop of main() seen for its command lines: commands with            *)
(* placeholders, many iterations, every process exiting 0 at once.         *)
(***************************************************************************)
RenderCommands ==
    { <<SEPARATOR, Tok("balances")>>,
      <<Tok("add"), <<"id-", "{i}", "-", "{ts}">>, <<"{i}", "{i}">>>>,
      <<Tok("{ts}"), Tok("list"), <<"{ts}", "/", "{i}", "{ts}">>>> }

render_start ==
    /\ Start(RenderCommands, 1..MaxRenderIterations, {0}, {<<"", FALSE>>})
    /\ UNCHANGED twin

render_spawn == spawn /\ UNCHANGED twin

render_exit == Complete(0, 1, <<>>) /\ UNCHANGED twin

render_summary == summary /\ UNCHANGED twin

(***************************************************************************)
(* percentile called on its own.                                           *)
(***************************************************************************)
\* values: every short list, and lists of 5, 20 and 25 distinct samples
SampleLists ==
    UNION {[1..n -> 1..MaxDuration] : n \in 0..MaxSamples}
    \cup { <<3, 1, 5, 2, 4>>,
           [k \in 1..20 |-> 21 - k],
           [k \in 1..25 |-> ((7 * k) % 25) + 1] }

\* pct, in hundredths: 0.01, 0.28, 0.50, 0.95, 1.0
Proportions == {1, 28, 50, 95, 100}

InitCall ==
    /\ call \in {[fn |-> "percentile", values |-> v, pct |-> q] :
                    v \in SampleLists, q \in Proportions}
    /\ ret = <<>>

percentile_call ==
    /\ call.fn = "percentile"
    /\ ret = <<>>
    /\ ret' = <<percentile(call.values, call.pct)>>
    /\ UNCHANGED <<call, service_vars, driver_vars, twin, race_vars>>

(***************************************************************************)
(* Two runs of main() side by side.  The first is the driver above; twin   *)
(* holds the tallies, the printed statuses and the return value of a       *)
(* second run whose processes time out, exit and print the rate-limit      *)
(* marker exactly as the first run's do, with any output otherwise.        *)
(***************************************************************************)
TwinStart ==
    [crashes |-> 0, rate_limits |-> 0, successes |-> 0, retriable_seen |-> 0,
     statuses |-> <<>>, outputs |-> <<>>, exit_code |-> -1]

\* lines 129-132 in the second run
TwinTimeout(t) ==
    [t EXCEPT !.crashes = @ + 1,
              !.statuses = Append(@, "TIMEOUT"),
              !.outputs = Append(@, None)]

\* lines 139-160 in the second run
TwinComplete(t, result) ==
    [t EXCEPT !.crashes = @ + CrashIncrement(result),
              !.retriable_seen = @ + RetriableIncrement(result),
              !.rate_limits = @ + RateLimitIncrement(result),
              !.successes = @ + SuccessIncrement(result),
              !.statuses = Append(@, Classify(result)),
              !.outputs = Append(@, result.output)]

twin_start ==
    /\ Start({<<SEPARATOR, Tok("balances")>>}, 0..MaxIterations, {0},
             {<<"", FALSE>>})
    /\ twin' = TwinStart

twin_spawn == spawn /\ UNCHANGED twin

twin_timeout == timeout /\ twin' = TwinTimeout(twin)

twin_complete ==
    \E returncode \in ReturnCodes, output \in Outputs, other \in Outputs :
        /\ Contains(output, RATE_LIMIT_MARKER)
              = Contains(other, RATE_LIMIT_MARKER)
        /\ Complete(returncode, 1, output)
        /\ twin' = TwinComplete(twin, run_once(returncode, 1, other))

twin_summary ==
    /\ summary
    /\ twin' = [twin EXCEPT !.exit_code = main_return(twin.crashes)]

InitService ==
    /\ attempt_registry = <<>>
    /\ calls = [e \in StatefulEndpoints |-> 0]
    /\ response = NoResponse

InitDriver ==
    /\ pc = "start"
    /\ command = <<>>
    /\ cli_args = <<>>
    /\ iterations = 0
    /\ sleep = 0
    /\ i = 0
    /\ cmd = <<>>
    /\ crashes = 0
    /\ rate_limits = 0
    /\ successes = 0
    /\ retriable_seen = 0
    /\ durations = <<>>
    /\ stdout = <<>>
    /\ runs = <<>>
    /\ slept = 0
    /\ exit_code = -1
    /\ log_dir = ""
    /\ verbose = FALSE
    /\ logs = <<>>
    /\ echoed = <<>>
    /\ report = <<>>

InitTwin == twin = <<>>

InitPure ==
    /\ call = <<>>
    /\ ret = <<>>

InitRace ==
    /\ requests = <<>>
    /\ log = [e \in StatefulEndpoints |-> <<>>]

Init == InitService /\ InitDriver /\ InitTwin /\ InitPure /\ InitRace

Next ==
    \/ mock_time
    \/ mock_exchange_info
    \/ mock_ticker
    \/ mock_account
    \/ mock_place_order

Spec == Init /\ [][Next]_vars

NextDriver ==
    \/ main_start /\ UNCHANGED twin
    \/ spawn /\ UNCHANGED twin
    \/ timeout /\ UNCHANGED twin
    \/ complete /\ UNCHANGED twin
    \/ summary /\ UNCHANGED twin

SpecDriver == Init /\ [][NextDriver]_vars

NextSequential ==
    \/ sequential_start
    \/ sequential_spawn
    \/ sequential_timeout
    \/ sequential_exit
    \/ sequential_summary

\* subprocess.run returns or raises TimeoutExpired after args.timeout, and
\* nothing else in main() blocks: the driver always takes its next step
\* (every step of the driver changes pc)
SpecSequential == Init /\ [][NextSequential]_vars /\ WF_pc(NextSequential)

NextTwin ==
    \/ twin_start
    \/ twin_spawn
    \/ twin_timeout
    \/ twin_complete
    \/ twin_summary

SpecTwin == Init /\ [][NextTwin]_vars

NextRace ==
    \/ race_request
    \/ handler_get
    \/ handler_store
    \/ handler_return
    \/ handler_test
    \/ handler_reset

SpecRace == Init /\ [][NextRace]_vars

NextCross ==
    \/ cross_request
    \/ handler_get
    \/ handler_store
    \/ handler_return
    \/ handler_test
    \/ handler_reset

SpecCross == Init /\ [][NextCross]_vars

NextRender ==
    \/ render_start
    \/ render_spawn
    \/ render_exit
    \/ render_summary

SpecRender == Init /\ [][NextRender]_vars

NextPercentile == percentile_call

InitPercentile ==
    InitService /\ InitDriver /\ InitTwin /\ InitCall /\ InitRace

SpecPercentile == InitPercentile /\ [][NextPercentile]_vars

(***************************************************************************)
(* The service, requests served one at a time (Spec).                      *)
(***************************************************************************)
\* the cycle lengths of the policy table
CycleLength(endpoint) == IF endpoint = "place_order" THEN 5 ELSE 4

\* C1: the k-th request to the ticker handler is answered 429 when k is a
\* multiple of 4 and 200 with price "60000.00" otherwise, and the counter
\* is back at 0 after the 429.
C1_TickerEveryFourth ==
    response.endpoint = "ticker" =>
        IF calls["ticker"] % 4 = 0
        THEN /\ response.status = 429
             /\ RegistryGet(attempt_registry, "ticker") = 0
        ELSE /\ response.status = 200
             /\ response.body.price = "60000.00"

\* C2: the k-th request to the time handler is answered 503 when k mod 4 is
\* 1, 2 or 3, and 200 with a serverTime when k mod 4 is 0; the 200 resets
\* the counter, so request 5 is answered 503 again.
C2_TimeCycle ==
    response.endpoint = "time" =>
        IF calls["time"] % 4 = 0
        THEN /\ response.status = 200
             /\ DOMAIN response.body = {"serverTime"}
             /\ response.body.serverTime \in Clock
             /\ RegistryGet(attempt_registry, "time") = 0
        ELSE /\ response.status = 503
             /\ response.body = [msg |-> "Server Busy"]

C2_Witness ==
    /\ response.endpoint = "time"
    /\ calls["time"] = 5
    /\ response.status = 503

\* C3: the k-th request to the order handler is answered 418 when k mod 5 is
\* 1..4, and 200 with orderId 1234567 when k mod 5 is 0; the 200 resets
\* the counter, so request 6 is answered 418 again.
C3_OrderCycle ==
    response.endpoint = "place_order" =>
        IF calls["place_order"] % 5 = 0
        THEN /\ response.status = 200
             /\ response.body.orderId = 1234567
             /\ RegistryGet(attempt_registry, "place_order") = 0
        ELSE /\ response.status = 418
             /\ response.body.msg = "IP Banned"

C3_Witness ==
    /\ response.endpoint = "place_order"
    /\ calls["place_order"] = 6
    /\ response.status = 418

\* C4: after k requests to a stateful endpoint its attempt counter is
\* k mod (cycle length), for the time, ticker and order endpoints alike.
C4_CounterIsCallsModCycle ==
    \A e \in StatefulEndpoints :
        RegistryGet(attempt_registry, e) = calls[e] % CycleLength(e)

\* C13: a request to the time, ticker or order handler leaves the counters
\* of the other two endpoints as they were; a request to the exchange-info
\* or account handler is answered 200 and leaves every counter as it was.
C13_HandlerStep ==
    /\ \A e \in StatefulEndpoints :
          response'.endpoint # e =>
              RegistryGet(attempt_registry', e)
                  = RegistryGet(attempt_registry, e)
    /\ response'.endpoint \in {"exchangeInfo", "account"} =>
          /\ response'.status = 200
          /\ attempt_registry' = attempt_registry

C13_CountersAreSeparate == [][C13_HandlerStep]_vars

C13_Witness ==
    /\ response.endpoint = "account"
    /\ RegistryGet(attempt_registry, "time") = 2
    /\ RegistryGet(attempt_registry, "place_order") = 3
    /\ calls["time"] = 6
    /\ calls["ticker"] = 2

(***************************************************************************)
(* The driver (SpecDriver).  runs is the record of what every spawned      *)
(* process did; the properties compare the driver's tallies and printed    *)
(* lines with it.                                                          *)
(***************************************************************************)
Finished == {k \in DOMAIN runs : runs[k].state # "RUNNING"}

TimedOut(k) == runs[k].state = "TIMED_OUT"

Completed(k) == runs[k].state = "COMPLETED"

HasRateLimitMarker(k) ==
    Completed(k) /\ Contains(runs[k].output, RATE_LIMIT_MARKER)

HasRetriableMarker(k) ==
    Completed(k) /\ Contains(runs[k].output, RETRIABLE_MARKER)

ExitedZero(k) == Completed(k) /\ runs[k].returncode = 0

ExitedNonZero(k) == Completed(k) /\ runs[k].returncode # 0

Crashed(k) == TimedOut(k) \/ ExitedNonZero(k)

\* C5: every finished iteration prints exactly one status line, and its
\* status is TIMEOUT if it timed out, else RATE_LIMIT if the output holds
\* "Rate limit exceeded" (whatever the exit code), else OK if the exit code
\* is 0, else FAIL.
C5_StatusPrecedence ==
    /\ Len(stdout) = Cardinality(Finished)
    /\ \A k \in Finished :
          /\ stdout[k].i = runs[k].i
          /\ stdout[k].status =
                IF TimedOut(k) THEN "TIMEOUT"
                ELSE IF HasRateLimitMarker(k) THEN "RATE_LIMIT"
                ELSE IF runs[k].returncode = 0 THEN "OK"
                ELSE "FAIL"

C5_Witness ==
    /\ Len(stdout) = 2
    /\ HasRateLimitMarker(1) /\ ExitedNonZero(1)
    /\ stdout[1].status = "RATE_LIMIT"
    /\ ExitedNonZero(2) /\ ~HasRateLimitMarker(2)
    /\ stdout[2].status = "FAIL"

\* C6: the crash tally is the number of iterations so far that timed out or
\* exited non-zero, whatever their display status.
C6_CrashTally ==
    crashes = Cardinality({k \in Finished : Crashed(k)})

C6_Witness ==
    /\ Len(stdout) = 2
    /\ HasRateLimitMarker(1) /\ ExitedZero(1)
    /\ HasRateLimitMarker(2) /\ ExitedNonZero(2)
    /\ stdout[2].status = "RATE_LIMIT"
    /\ crashes = 1

\* C7: with a command to run, main() returns 2 if and only if some
\* iteration timed out or exited non-zero, and 0 otherwise.
C7_ExitCode ==
    (pc = "done" /\ cli_args # <<>>) =>
        /\ exit_code \in {0, 2}
        /\ exit_code = 2 <=> \E k \in DOMAIN runs : Crashed(k)

C7_Witness ==
    /\ pc = "done"
    /\ Len(runs) = 2
    /\ HasRateLimitMarker(1) /\ HasRetriableMarker(1) /\ ExitedZero(1)
    /\ ExitedNonZero(2) /\ ~HasRateLimitMarker(2)
    /\ crashes = 1
    /\ exit_code = 2

\* C8, as claimed: with an empty command argument list main() returns 2 at
\* once and spawns nothing.
C8_EmptyCommandReturns2 ==
    (pc # "start" /\ command = <<>>) =>
        /\ pc = "done"
        /\ exit_code = 2
        /\ runs = <<>>

\* C8, amended: main() returns 2 at once, spawning nothing, when nothing is
\* left of the command after its leading "--" is dropped (the list is just
\* "--"); an empty list stands for the command "balances", whose iterations
\* all run.
C8_NothingAfterSeparatorReturns2 ==
    pc # "start" =>
        /\ cli_args = <<>> <=> command = <<SEPARATOR>>
        /\ cli_args = <<>> =>
              /\ pc = "done"
              /\ exit_code = 2
              /\ runs = <<>>
              /\ stdout = <<>>
        /\ command = <<>> =>
              /\ cli_args = DEFAULT_COMMAND
              /\ pc = "done" => Len(runs) = iterations

C8_Witness ==
    /\ pc = "done"
    /\ command = <<SEPARATOR>>
    /\ exit_code = 2
    /\ iterations = 2

\* C9: a step in which the running process times out prints TIMEOUT for
\* that iteration, adds exactly 1 to the crash tally, leaves durations and
\* the success, rate-limit and retriable tallies alone and moves on to the
\* next iteration; every configured iteration is still run, and a run with a
\* timed-out iteration returns 2.
C9_TimeoutStep ==
    (pc = "running" /\ pc' = "loop" /\ runs'[Len(runs')].state = "TIMED_OUT")
        => /\ stdout' = Append(stdout, [i |-> i, status |-> "TIMEOUT"])
           /\ crashes' = crashes + 1
           /\ durations' = durations
           /\ successes' = successes
           /\ rate_limits' = rate_limits
           /\ retriable_seen' = retriable_seen
           /\ i' = i + 1
           /\ exit_code' = -1

C9_TimeoutRun ==
    (pc = "done" /\ \E k \in DOMAIN runs : TimedOut(k)) =>
        /\ Len(runs) = iterations
        /\ \A k \in DOMAIN runs : runs[k].i = k /\ k \in Finished
        /\ exit_code = 2

C9_Timeout == [][C9_TimeoutStep]_vars /\ []C9_TimeoutRun

C9_Witness ==
    /\ pc = "done"
    /\ Len(runs) = 2
    /\ TimedOut(1)
    /\ ExitedZero(2)
    /\ durations = <<runs[2].duration>>
    /\ crashes = 1
    /\ exit_code = 2

\* C10: the success tally is the number of completed iterations that exited
\* 0 with no rate-limit marker in the output, the rate-limit tally the
\* number with the marker; iterations that only carry the marker add nothing
\* to the crash tally, and a run whose iterations all exit 0 with no marker
\* ends with successes = iterations, the other tallies 0 and exit code 0.
AllClean ==
    \A k \in DOMAIN runs :
        ExitedZero(k) /\ ~HasRateLimitMarker(k) /\ ~HasRetriableMarker(k)

C10_SuccessTally ==
    /\ successes =
          Cardinality({k \in Finished : ExitedZero(k) /\ ~HasRateLimitMarker(k)})
    /\ rate_limits = Cardinality({k \in Finished : HasRateLimitMarker(k)})
    /\ (\A k \in Finished : ExitedZero(k)) => crashes = 0
    /\ (pc = "done" /\ cli_args # <<>> /\ AllClean) =>
          /\ successes = iterations
          /\ rate_limits = 0
          /\ retriable_seen = 0
          /\ crashes = 0
          /\ exit_code = 0

C10_Witness ==
    /\ pc = "done"
    /\ Len(runs) = 2
    /\ HasRateLimitMarker(1) /\ ExitedZero(1)
    /\ ExitedZero(2) /\ ~HasRateLimitMarker(2)
    /\ successes = 1
    /\ rate_limits = 1
    /\ crashes = 0
    /\ exit_code = 0

(***************************************************************************)
(* Two runs that differ only in the retriable marker (SpecTwin).           *)
(***************************************************************************)
Statuses == [k \in DOMAIN stdout |-> stdout[k].status]

\* C11: two runs whose iterations time out, exit and carry the rate-limit
\* marker alike have the same success, rate-limit and crash tallies, the
\* same display statuses and the same exit code, wherever "Retriable error"
\* appears; retriable_seen is, in each, the number of completed iterations
\* whose output holds that marker.
C11_RetriableMarkerIsInert ==
    pc # "start" =>
        /\ twin.successes = successes
        /\ twin.rate_limits = rate_limits
        /\ twin.crashes = crashes
        /\ twin.statuses = Statuses
        /\ twin.exit_code = exit_code
        /\ retriable_seen =
              Cardinality({k \in Finished : HasRetriableMarker(k)})
        /\ twin.retriable_seen =
              Cardinality({k \in DOMAIN twin.outputs :
                              /\ twin.outputs[k] # None
                              /\ Contains(twin.outputs[k], RETRIABLE_MARKER)})

C11_Witness ==
    /\ pc = "done"
    /\ Len(runs) = 2
    /\ HasRetriableMarker(1) /\ ExitedZero(1) /\ ~HasRateLimitMarker(1)
    /\ HasRetriableMarker(2) /\ ExitedNonZero(2) /\ HasRateLimitMarker(2)
    /\ retriable_seen = 2
    /\ twin.retriable_seen = 0
    /\ twin.successes = 1
    /\ twin.crashes = 1
    /\ twin.exit_code = 2

(***************************************************************************)
(* percentile (SpecPercentile).                                            *)
(***************************************************************************)
\* the rank of the nearest-rank method, for a proportion q/100 of n samples
NearestRank(q, n) == Max(1, Min((q * n + 99) \div 100, n))

\* v stands at 1-indexed rank r of the ascending sort of samples
AtRank(samples, r, v) ==
    /\ \E k \in DOMAIN samples : samples[k] = v
    /\ Cardinality({k \in DOMAIN samples : samples[k] < v}) < r
    /\ r <= Cardinality({k \in DOMAIN samples : samples[k] <= v})

\* C12: percentile(values, p) is 0.0 for the empty list and otherwise the
\* sample at rank clamp(ceiling(p * n), 1, n) of the ascending sort, for
\* every proportion 0 < p <= 1.
C12_NearestRank ==
    ret # <<>> =>
        IF call.values = <<>> THEN ret[1] = 0
        ELSE AtRank(call.values,
                    NearestRank(call.pct, Len(call.values)), ret[1])

(***************************************************************************)
(* render_command in the loop of main() (SpecRender).                      *)
(***************************************************************************)
DecimalDigits == <<"0", "1", "2", "3", "4", "5", "6", "7", "8", "9">>

\* the decimal numeral of n < 100
Decimal(n) ==
    IF n < 10 THEN <<DecimalDigits[n + 1]>>
    ELSE <<DecimalDigits[(n \div 10) + 1], DecimalDigits[(n % 10) + 1]>>

\* token with every "{i}" filled with n and every "{ts}" with ts
RECURSIVE Filled(_, _, _)
Filled(token, n, ts) ==
    IF token = <<>> THEN <<>>
    ELSE (CASE Head(token) = "{i}" -> Decimal(n)
            [] Head(token) = "{ts}" -> Decimal(ts)
            [] OTHER -> <<Head(token)>>)
         \o Filled(Tail(token), n, ts)

HasPlaceholder(token) ==
    \E k \in DOMAIN token : token[k] \in {"{i}", "{ts}"}

\* the rendered arguments of the process spawned last
Rendered == SubSeq(cmd, 4, Len(cmd))

\* C14: the command line of iteration i holds, after java -jar <jar>, one
\* token per argument, in order: the argument with every "{i}" replaced by
\* the decimal numeral of i and every "{ts}" by one timestamp, the same in
\* all tokens; an argument with no placeholder is passed as it is; and the
\* iterations rendered are 1, 2, ..., in order.
C14_RenderedCommand ==
    /\ \A k \in DOMAIN runs : runs[k].i = k
    /\ pc = "running" =>
          /\ i = Len(runs)
          /\ Len(Rendered) = Len(cli_args)
          /\ \E ts \in Clock :
                \A k \in DOMAIN cli_args :
                    Rendered[k] = Filled(cli_args[k], i, ts)
          /\ \A k \in DOMAIN cli_args :
                ~HasPlaceholder(cli_args[k]) => Rendered[k] = cli_args[k]

C14_Witness ==
    /\ pc = "running"
    /\ i = 11
    /\ cli_args = <<Tok("add"), <<"id-", "{i}", "-", "{ts}">>, <<"{i}", "{i}">>>>
    /\ Rendered = <<Tok("add"), <<"id-", "1", "1", "-", "2">>,
                    <<"1", "1", "1", "1">>>>

(***************************************************************************)
(* Handlers running side by side (SpecRace, SpecCross).                    *)
(***************************************************************************)
\* the statuses endpoint has answered, in order
Answered(endpoint) ==
    [k \in DOMAIN log[endpoint] |-> log[endpoint][k].status]

\* no two of the requests made to endpoint so far have been in flight together
Serialized(endpoint) ==
    /\ InFlight(endpoint) = {}
    /\ \A k \in DOMAIN log[endpoint] : log[endpoint][k].alone

\* the serialized cycle: the counter is the number of calls modulo the cycle
\* length, and the recovery response is the answer to every call that
\* completes a cycle and to no other
CycleHolds(endpoint) ==
    /\ RegistryGet(attempt_registry, endpoint)
          = Len(log[endpoint]) % CycleLength(endpoint)
    /\ \A k \in DOMAIN log[endpoint] :
          (log[endpoint][k].status = 200) <=> (k % CycleLength(endpoint) = 0)

\* C15: with the handlers run line by line and two requests at a time, the
\* cycle of /api/v3/time and of /api/v3/order holds whenever the requests to
\* the endpoint did not overlap: a lost increment or a recovery response
\* that is skipped, delayed or doubled comes only from two requests to the
\* same endpoint in flight together, and C15_Witness is such a state.
C15_RaceNeedsOverlap ==
    \A e \in {"time", "place_order"} : Serialized(e) => CycleHolds(e)

\* two requests to /api/v3/time have both been answered 503 and the counter
\* is 1: both read 0 before either stored
C15_Witness ==
    /\ requests = <<>>
    /\ Answered("time") = <<503, 503>>
    /\ ~log["time"][1].alone
    /\ attempt_registry["time"] = 1
    /\ ~CycleHolds("time")

\* n requests to endpoint, each handled before the next arrives, and no
\* request to any other endpoint
RECURSIVE AloneRun(_, _)
AloneRun(endpoint, n) ==
    IF n = 0 THEN [registry |-> <<>>, statuses |-> <<>>]
    ELSE LET before == AloneRun(endpoint, n - 1)
             handled == Handle(before.registry, endpoint)
         IN  [registry |-> handled.registry,
              statuses |-> Append(before.statuses, handled.status)]

\* C16: with at most one request in flight per endpoint and the handlers of
\* different endpoints interleaved line by line, each endpoint has answered
\* the statuses it answers to as many requests made alone, and between its
\* requests its counter has the value it has then.
C16_CrossEndpointSafe ==
    \A e \in StatefulEndpoints :
        /\ Answered(e) = AloneRun(e, Len(log[e])).statuses
        /\ InFlight(e) = {} =>
              RegistryGet(attempt_registry, e)
                = RegistryGet(AloneRun(e, Len(log[e])).registry, e)

\* three handlers are at three different lines, after the time endpoint has
\* recovered once and the order endpoint is about to
C16_Witness ==
    /\ Len(requests) = 3
    /\ {requests[k].at : k \in DOMAIN requests} = {"store", "test", "reset"}
    /\ Answered("time") = <<503, 503, 503, 200, 503>>
    /\ Len(log["place_order"]) = 4
    /\ \E k \in DOMAIN requests :
          requests[k].endpoint = "place_order" /\ requests[k].at = "reset"

(***************************************************************************)
(* The iterations of main(), one after the other (SpecSequential).         *)
(***************************************************************************)
Terminal(run) == run.state \in {"COMPLETED", "TIMED_OUT"}

\* iterations are spawned in index order, none twice, and only the last one
\* spawned can be running
C17_InOrder ==
    /\ \A k \in DOMAIN runs :
          /\ runs[k].i = k
          /\ k <= iterations
          /\ runs[k].state = "RUNNING" \/ Terminal(runs[k])
          /\ runs[k].state = "RUNNING" => k = Len(runs) /\ pc = "running"
    /\ pc = "running" => runs # <<>> /\ runs[Len(runs)].state = "RUNNING"
    /\ pc = "done" /\ cli_args # <<>> =>
          /\ Len(runs) = iterations
          /\ \A k \in DOMAIN runs : Terminal(runs[k])

\* an iteration starts running once, after all before it have ended, and
\* ends once, completed or timed out
C17_RunStep ==
    \/ /\ \A k \in DOMAIN runs : Terminal(runs[k])
       /\ runs' = Append(runs, [i |-> Len(runs) + 1, state |-> "RUNNING"])
    \/ /\ runs # <<>>
       /\ runs[Len(runs)].state = "RUNNING"
       /\ Len(runs') = Len(runs)
       /\ Terminal(runs'[Len(runs)])
       /\ \A k \in 1..(Len(runs) - 1) : runs'[k] = runs[k]

\* C17: with a command and N iterations configured, iterations 1..N go from
\* pending to RUNNING to COMPLETED or TIMED_OUT, once each and in index
\* order, at most one is RUNNING at a time, none is retried, every one of
\* them runs whatever happened to those before it, and the driver reaches
\* the summary and terminates.
C17_Sequential ==
    /\ []C17_InOrder
    /\ [][C17_RunStep]_runs
    /\ (pc \in {"loop", "running"}) ~> (pc = "done")

\* the first iteration timed out, the second ran all the same and exited 1,
\* and the driver is done
C17_Witness ==
    /\ pc = "done"
    /\ Len(runs) = 2
    /\ runs[1].state = "TIMED_OUT"
    /\ runs[2].state = "COMPLETED"
    /\ runs[2].returncode = 1

(***************************************************************************)
(* Durations, tallies and pauses over a run (SpecDriver).                  *)
(***************************************************************************)
\* the durations of the completed ones of the first n iterations, in order
RECURSIVE SamplesUpTo(_)
SamplesUpTo(n) ==
    IF n = 0 THEN <<>>
    ELSE IF Completed(n) THEN Append(SamplesUpTo(n - 1), runs[n].duration)
    ELSE SamplesUpTo(n - 1)

Samples == SamplesUpTo(Len(runs))

SampleSet == {runs[k].duration : k \in {n \in Finished : Completed(n)}}

\* C18: durations holds the duration of every completed iteration so far, in
\* iteration order, and nothing for a timed-out one; an iteration that exits
\* non-zero is a crash with a sample; len(durations) is the iterations
\* processed minus the timeouts; the statistics printed are those of the
\* completed iterations, and all 0.0 when there is none.
C18_DurationSamples ==
    /\ durations = Samples
    /\ Len(durations)
          = Cardinality(Finished) - Cardinality({k \in Finished : TimedOut(k)})
    /\ \A k \in Finished : ExitedNonZero(k) => crashes >= 1
    /\ (pc = "done" /\ cli_args # <<>>) =>
          IF SampleSet = {}
          THEN report = [avg |-> <<0, 1>>, p50 |-> 0, p95 |-> 0,
                         fastest |-> 0, slowest |-> 0]
          ELSE /\ report.avg = <<sum(Samples), Len(Samples)>>
               /\ report.fastest \in SampleSet
               /\ report.slowest \in SampleSet
               /\ report.p50 \in SampleSet
               /\ report.p95 \in SampleSet
               /\ \A d \in SampleSet :
                     report.fastest <= d /\ d <= report.slowest
               /\ report.p50 <= report.p95

\* the first iteration timed out, the second exited 1 after the longest
\* duration: one sample, one report over it, two crashes
C18_Witness ==
    /\ pc = "done"
    /\ Len(runs) = 2
    /\ TimedOut(1)
    /\ ExitedNonZero(2)
    /\ runs[2].duration = MaxDuration
    /\ durations = <<MaxDuration>>
    /\ crashes = 2
    /\ report.avg = <<MaxDuration, 1>>
    /\ report.fastest = MaxDuration

RateLimitedOnly == {k \in Finished : HasRateLimitMarker(k) /\ ExitedZero(k)}

C19_Partition ==
    /\ successes + crashes <= Cardinality(Finished)
    /\ successes + crashes + Cardinality(RateLimitedOnly)
          = Cardinality(Finished)
    /\ rate_limits <= Len(durations)
    /\ retriable_seen <= Len(durations)
    /\ successes >= 0 /\ crashes >= 0
    /\ rate_limits >= 0 /\ retriable_seen >= 0

C19_TallyStep ==
    /\ successes' >= successes
    /\ crashes' >= crashes
    /\ rate_limits' >= rate_limits
    /\ retriable_seen' >= retriable_seen
    /\ ~(successes' > successes /\ crashes' > crashes)

\* C19: after m processed iterations no iteration has been counted both as
\* a success and as a crash, successes + crashes <= m, successes + crashes +
\* the rate-limited iterations that exited 0 = m, rate_limits and
\* retriable_seen are at most len(durations), and no tally is negative or
\* ever decreases.
C19_TallyPartition ==
    /\ []C19_Partition
    /\ [][C19_TallyStep]_<<successes, crashes, rate_limits, retriable_seen>>

\* a rate-limited iteration that exited 0, then a rate-limited one that
\* exited 1: neither is a success, one is a crash
C19_Witness ==
    /\ Len(runs) = 2
    /\ Finished = {1, 2}
    /\ HasRateLimitMarker(1) /\ ExitedZero(1)
    /\ HasRateLimitMarker(2) /\ ExitedNonZero(2)
    /\ HasRetriableMarker(2)
    /\ successes = 0
    /\ crashes = 1
    /\ rate_limits = 2
    /\ retriable_seen = 1

\* the iteration that was running has ended
Ends == pc = "running" /\ pc' = "loop"

C20_PaceStep ==
    /\ pc # "start" => sleep' = sleep
    /\ (Ends /\ runs'[Len(runs')].state = "COMPLETED") =>
          slept' = slept + (IF sleep > 0 THEN 1 ELSE 0)
    /\ (Ends /\ runs'[Len(runs')].state = "TIMED_OUT") =>
          /\ slept' = slept
          /\ logs' = logs
          /\ echoed' = echoed
          /\ i' = i + 1
    /\ ~Ends => slept' = slept

C20_Paced ==
    /\ slept = (IF sleep > 0
                THEN Cardinality({k \in Finished : Completed(k)}) ELSE 0)
    /\ Len(logs) <= Cardinality({k \in Finished : Completed(k)})
    /\ Len(echoed) <= Cardinality({k \in Finished : Completed(k)})

\* C20: with sleep > 0 the driver pauses once after every completed
\* iteration, whether it printed OK, FAIL or RATE_LIMIT, and after a
\* timed-out iteration it pauses not, writes no log and echoes no output
\* but goes on to the next iteration; the interval stays what the command
\* line set.
C20_Pacing ==
    /\ []C20_Paced
    /\ [][C20_PaceStep]_<<pc, sleep, slept, logs, echoed, i, runs>>

\* with logging and echo on and sleep 1: a rate-limited iteration, then a
\* timed-out one; one pause, one log, one echo
C20_Witness ==
    /\ sleep = 1
    /\ log_dir # ""
    /\ verbose
    /\ Len(runs) = 2
    /\ HasRateLimitMarker(1)
    /\ stdout[1].status = "RATE_LIMIT"
    /\ TimedOut(2)
    /\ slept = 1
    /\ Len(logs) = 1
    /\ Len(echoed) = 1
    /\ i = 3

====
